---- MODULE Spec2Model ----
(***************************************************************************)
(* Model of generate_gt_from_folder.py: main, get_image_files and          *)
(* generate_gt_from_folders.                                               *)
(*                                                                         *)
(* File names are sequences of one-character strings, so that splitext,    *)
(* lower() and the f-string "{base_name}_{counter}" are computed on the    *)
(* characters as the program computes them.  The output directory is a     *)
(* function from the names of the files in it to their contents.           *)
(***************************************************************************)
EXTENDS Integers, Sequences, FiniteSets, TLC

\* ------------------------------------------------------------------ bounds
MaxFiles == 2      \* files in the input tree
MaxPre == 1        \* files in the output directory before the first run
MaxFailures == 1   \* I/O errors (IOError/OSError) raised during one behaviour
MaxRuns == 2       \* consecutive invocations of the tool on the same directories

\* ------------------------------------------------------- strings and names
UpperCase == <<"A","B","C","D","E","F","G","H","I","J","K","L","M",
               "N","O","P","Q","R","S","T","U","V","W","X","Y","Z">>
LowerCase == <<"a","b","c","d","e","f","g","h","i","j","k","l","m",
               "n","o","p","q","r","s","t","u","v","w","x","y","z">>

\* str.lower() on one character
LowerChar(c) ==
    IF \E k \in 1..26 : UpperCase[k] = c
    THEN LowerCase[CHOOSE k \in 1..26 : UpperCase[k] = c]
    ELSE c

\* str.lower()
Lower(s) == [k \in 1..Len(s) |-> LowerChar(s[k])]

\* os.path.splitext on a file name without separators: the extension starts at
\* the last dot, unless only dots precede it
splitext(file) ==
    LET dots == {k \in 1..Len(file) : file[k] = "."}
        d == IF dots = {} THEN 0 ELSE CHOOSE k \in dots : \A m \in dots : m <= k
    IN IF d > 0 /\ \E k \in 1..(d - 1) : file[k] # "."
       THEN <<SubSeq(file, 1, d - 1), SubSeq(file, d, Len(file))>>
       ELSE <<file, <<>>>>

Digits == <<"0","1","2","3","4","5","6","7","8","9">>

\* str(counter) inside the f-string
RECURSIVE Decimal(_)
Decimal(n) ==
    IF n < 10 THEN <<Digits[n + 1]>>
    ELSE Decimal(n \div 10) \o <<Digits[(n % 10) + 1]>>

\* f"{base_name}_{counter}"
Suffixed(base_name, n) == base_name \o <<"_">> \o Decimal(n)

\* f"{dest_base}{ext}" joined to the output directory
ImagePath(dest_base, ext) == dest_base \o ext

\* f"{dest_base}.gt.txt" joined to the output directory
TxtPath(dest_base) == dest_base \o <<".","g","t",".","t","x","t">>

\* the allow-list of line 51
image_extensions ==
    { <<".","p","n","g">>, <<".","j","p","g">>, <<".","j","p","e","g">>,
      <<".","t","i","f">>, <<".","t","i","f","f">>, <<".","b","m","p">>,
      <<".","g","i","f">> }

\* ---------------------------------------------------------- the input tree
\* A file of the input tree: the folders from the input root down to the
\* file's directory (<<>> is the root itself) and the file's name.
Entry(dir, file) == [dir |-> dir, file |-> file]

NoEntry == Entry(<<>>, <<>>)

\* The image files the pairing runs draw their input tree from.
InputUniverse ==
    { Entry(<<"Apple">>,  <<"a",".","p","n","g">>),
      Entry(<<"Banana">>, <<"a",".","p","n","g">>),
      Entry(<<"Banana">>, <<"a",".","J","P","G">>),
      Entry(<<"Apple","sub">>, <<"a","_","1",".","p","n","g">>) }

\* The files the discovery runs draw their input tree from: every name in
\* the root, in two first-level folders and in a nested folder.
WalkDirs == { <<>>, <<"Apple">>, <<"Banana">>, <<"Apple","sub">> }

WalkNames ==
    { <<"a",".","p","n","g">>, <<"a",".","J","P","G">>,
      <<"a",".","t","x","t">>, <<".","p","n","g">>,
      <<"a",".","b",".","T","i","f","f">> }

WalkUniverse == { Entry(d, f) : d \in WalkDirs, f \in WalkNames }

\* Mutant: the label is taken from the first folder below the input root.
folder_name_of_Top(e) == IF e.dir = <<>> THEN "input_root" ELSE e.dir[1]

\* os.path.basename(os.path.dirname(file_path))
folder_name_of(e) == IF e.dir = <<>> THEN "input_root" ELSE e.dir[Len(e.dir)]

IsPrefix(p, d) == Len(p) <= Len(d) /\ SubSeq(d, 1, Len(p)) = p

\* The orders in which os.walk(top-down) can list the files of a tree: the
\* files of one directory together, a directory before its subdirectories,
\* and a subtree finished before the next sibling starts.
WalkOrders(t) ==
    { s \in [1..Cardinality(t) -> t] :
        /\ \A i, j \in DOMAIN s : i # j => s[i] # s[j]
        /\ \A i, j \in DOMAIN s :
              (s[i].dir # s[j].dir /\ IsPrefix(s[i].dir, s[j].dir)) => i < j
        /\ \A i, j, k \in DOMAIN s :
              (i < j /\ j < k) =>
                  \A n \in 1..Len(s[i].dir) :
                      LET d == SubSeq(s[i].dir, 1, n)
                      IN (IsPrefix(d, s[k].dir)) => IsPrefix(d, s[j].dir)
        /\ \A i, j, k \in DOMAIN s :
              (i < j /\ j < k /\ s[i].dir = s[k].dir) => s[j].dir = s[i].dir }

\* Contents of a file of the output directory.
Text(label)  == [kind |-> "text",    label |-> label, src |-> NoEntry]
Image(e)     == [kind |-> "image",   label |-> "",    src |-> e]
Partial      == [kind |-> "partial", label |-> "",    src |-> NoEntry]
Old          == [kind |-> "old",     label |-> "",    src |-> NoEntry]

PreUniverse ==
    { <<"a",".","p","n","g">>, <<"a",".","j","p","g">>,
      <<"a",".","g","t",".","t","x","t">> }

EmptyDir == [n \in {} |-> Old]

VARIABLES
    tree,            \* the files under the input directory
    listing,         \* the order in which os.walk lists them
    input_is_dir,    \* os.path.isdir(args.input_dir)
    out_exists,      \* the output directory exists
    out,             \* the files of the output directory: name -> contents
    pc,              \* position within main / generate_gt_from_folders
    image_files,     \* list of (file_path, base_name, ext)
    idx,             \* position of the for loop in image_files
    dest_base, dest_image, txt_filepath, counter,
    total_files, processed_files,
    exit_status,     \* -1 while the process runs
    run,             \* number of the current invocation
    failures,        \* I/O errors raised so far
    out_start,       \* history: the output directory when this run started
    prev_start,      \* history: the output directory when the previous run started
    attempts,        \* history: one record per candidate this run has resolved
    prev_attempts,   \* history: the attempts of the previous run
    orphans          \* history: text files whose image copy then failed

vars == <<tree, listing, input_is_dir, out_exists, out, pc, image_files, idx,
          dest_base, dest_image, txt_filepath, counter, total_files,
          processed_files, exit_status, run, failures, out_start, prev_start,
          attempts, prev_attempts, orphans>>

locals == <<image_files, idx, dest_base, dest_image, txt_filepath, counter,
            total_files, processed_files>>

inputs == <<tree, listing, input_is_dir>>

earlier == <<out_start, prev_start, prev_attempts>>

\* Mutant: the root directory's own files are not skipped.
RECURSIVE get_image_files_NoSkip(_)
get_image_files_NoSkip(walk) ==
    IF walk = <<>> THEN <<>>
    ELSE LET e == Head(walk)
             parts == splitext(e.file)
             rest == get_image_files_NoSkip(Tail(walk))
         IN IF Lower(parts[2]) \in image_extensions
            THEN <<[file_path |-> e, base_name |-> parts[1],
                    ext |-> Lower(parts[2])]>> \o rest
            ELSE rest

\* ------------------------------------------------------------ get_image_files
\* Lines 20-31 over the walk: the files of the root directory are skipped,
\* every other directory's files are split and filtered by extension.
RECURSIVE get_image_files(_)
get_image_files(walk) ==
    IF walk = <<>> THEN <<>>
    ELSE LET e == Head(walk)
             parts == splitext(e.file)
             rest == get_image_files(Tail(walk))
         IN IF e.dir = <<>> THEN rest
            ELSE IF Lower(parts[2]) \in image_extensions
                 THEN <<[file_path |-> e, base_name |-> parts[1],
                         ext |-> Lower(parts[2])]>> \o rest
                 ELSE rest

\* ----------------------------------------------------- collision resolution
\* os.path.exists on a path of the output directory
Exists(dir, path) == path \in DOMAIN dir

\* Mutant: only the image's path is tested.
Collides_ImageOnly(dir, base, ext) == Exists(dir, ImagePath(base, ext))

\* Mutant: only the text file's path is tested.
Collides_TxtOnly(dir, base, ext) == Exists(dir, TxtPath(base))

\* The guard of the while loop of line 74.
Collides(dir, base, ext) ==
    Exists(dir, ImagePath(base, ext)) \/ Exists(dir, TxtPath(base))

\* Lines 68-78: the value of counter when the loop ends, starting at n (the
\* loop is entered with counter = 1 after dest_base = base_name collided).
RECURSIVE Probe(_, _, _, _)
Probe(dir, base_name, ext, n) ==
    IF Collides(dir, Suffixed(base_name, n), ext)
    THEN Probe(dir, base_name, ext, n + 1)
    ELSE n

\* Mutant: an if in place of the while, the first suffix is taken untested.
ResolveBase_Once(dir, base_name, ext) ==
    IF Collides(dir, base_name, ext)
    THEN <<Suffixed(base_name, 1), 2>>
    ELSE <<base_name, 1>>

\* Mutant: counter is incremented before the name is formatted.
ResolveBase_OffByOne(dir, base_name, ext) ==
    IF Collides(dir, base_name, ext)
    THEN LET n == Probe(dir, base_name, ext, 1)
         IN <<Suffixed(base_name, n + 1), n + 1>>
    ELSE <<base_name, 1>>

\* Lines 68-78: <<dest_base, counter>> after the loop.
ResolveBase(dir, base_name, ext) ==
    IF Collides(dir, base_name, ext)
    THEN LET n == Probe(dir, base_name, ext, 1)
         IN <<Suffixed(base_name, n), n + 1>>
    ELSE <<base_name, 1>>

\* open(path, 'w') / shutil.copy2: the file at path is created or replaced.
Put(dir, path, content) ==
    [n \in DOMAIN dir \cup {path} |-> IF n = path THEN content ELSE dir[n]]

\* ------------------------------------------------------------------- Init
InitOver(universe, preUniverse) ==
    /\ tree \in {t \in SUBSET universe : Cardinality(t) <= MaxFiles}
    /\ listing \in WalkOrders(tree)
    /\ input_is_dir \in BOOLEAN
    /\ (~input_is_dir) => tree = {}
    /\ \E pre \in {p \in SUBSET preUniverse : Cardinality(p) <= MaxPre} :
          out = [n \in pre |-> Old]
    /\ out_exists \in BOOLEAN
    /\ (out # EmptyDir) => out_exists
    /\ pc = "main"
    /\ image_files = <<>>
    /\ idx = 0
    /\ dest_base = <<>>
    /\ dest_image = <<>>
    /\ txt_filepath = <<>>
    /\ counter = 0
    /\ total_files = 0
    /\ processed_files = <<>>
    /\ exit_status = -1
    /\ run = 1
    /\ failures = 0
    /\ out_start = out
    /\ prev_start = out
    /\ attempts = <<>>
    /\ prev_attempts = <<>>
    /\ orphans = {}

Init == InitOver(InputUniverse, PreUniverse)

\* A first run over any tree of the discovery universe, into an empty or
\* missing output directory.
InitWalk == InitOver(WalkUniverse, {})

\* ------------------------------------------------------------------ main
\* Mutant: the input directory is not validated.
ValidateInput_Unchecked ==
    /\ pc = "main"
    /\ pc' = "mkdir"
    /\ UNCHANGED <<inputs, out_exists, out, locals, exit_status, run, failures,
                   earlier, attempts, orphans>>

\* Lines 126-131: the input directory is validated first.
ValidateInput ==
    /\ pc = "main"
    /\ IF input_is_dir
       THEN pc' = "mkdir" /\ UNCHANGED exit_status
       ELSE pc' = "exit" /\ exit_status' = 1
    /\ UNCHANGED <<inputs, out_exists, out, locals, run, failures, earlier,
                   attempts, orphans>>

\* Line 48: Path(output_dir).mkdir(parents=True, exist_ok=True).
MakeOutputDir ==
    /\ pc = "mkdir"
    /\ out_exists' = TRUE
    /\ pc' = "walk"
    /\ UNCHANGED <<inputs, out, locals, exit_status, run, failures, earlier,
                   attempts, orphans>>

\* Line 48 raising OSError: nothing catches it, the interpreter exits with 1.
MakeOutputDirFails ==
    /\ pc = "mkdir"
    /\ ~out_exists
    /\ failures < MaxFailures
    /\ failures' = failures + 1
    /\ pc' = "exit"
    /\ exit_status' = 1
    /\ UNCHANGED <<inputs, out_exists, out, locals, run, earlier, attempts,
                   orphans>>

\* The for loop moves to the next candidate, or ends (line 97).
Advance(i) == IF i < Len(image_files) THEN "loop" ELSE "return"

\* Lines 54-61.
Discover ==
    /\ pc = "walk"
    /\ image_files' = get_image_files(listing)
    /\ total_files' = 0
    /\ processed_files' = <<>>
    /\ idx' = 0
    /\ pc' = IF image_files' = <<>> THEN "return" ELSE "loop"
    /\ UNCHANGED <<inputs, out_exists, out, dest_base, dest_image, txt_filepath,
                   counter, exit_status, run, failures, earlier, attempts,
                   orphans>>

\* Lines 63-78: the next candidate is taken and its names are resolved
\* against the output directory as it is now.  txt is how line 82-83 ends.
Resolve(txt) ==
    LET c == image_files[idx + 1]
        r == ResolveBase(out, c.base_name, c.ext)
    IN /\ idx' = idx + 1
       /\ dest_base' = r[1]
       /\ counter' = r[2]
       /\ dest_image' = ImagePath(r[1], c.ext)
       /\ txt_filepath' = TxtPath(r[1])
       /\ attempts' = Append(attempts,
             [cand |-> c, base |-> r[1],
              fresh |-> ~Exists(out, ImagePath(r[1], c.ext))
                        /\ ~Exists(out, TxtPath(r[1])),
              txt |-> txt, img |-> "none"])

\* Lines 63-83: the text file is opened for writing and the label written.
WriteTxt ==
    /\ pc = "loop"
    /\ Resolve("ok")
    /\ out' = Put(out, txt_filepath',
                  Text(folder_name_of(image_files[idx'].file_path)))
    /\ pc' = "copy"
    /\ UNCHANGED <<inputs, out_exists, image_files, total_files,
                   processed_files, exit_status, run, failures, earlier,
                   orphans>>

\* Line 82 raising OSError (the file cannot be created): lines 94-95.
WriteTxtOpenFails ==
    /\ pc = "loop"
    /\ failures < MaxFailures
    /\ failures' = failures + 1
    /\ Resolve("open_failed")
    /\ pc' = Advance(idx')
    /\ UNCHANGED <<inputs, out_exists, out, image_files, total_files,
                   processed_files, exit_status, run, earlier, orphans>>

\* Line 83 (or the close of line 82's with) raising OSError after the file
\* was created, e.g. disk full: the file is left without the label.
WriteTxtWriteFails ==
    /\ pc = "loop"
    /\ failures < MaxFailures
    /\ failures' = failures + 1
    /\ Resolve("write_failed")
    /\ out' = Put(out, txt_filepath', Partial)
    /\ pc' = Advance(idx')
    /\ UNCHANGED <<inputs, out_exists, image_files, total_files,
                   processed_files, exit_status, run, earlier, orphans>>

\* history: the text file just written, should the copy of line 86 fail
Orphan ==
    [run |-> run, k |-> idx, base |-> dest_base,
     label |-> folder_name_of(image_files[idx].file_path)]

Mark(field, value) ==
    [attempts EXCEPT ![Len(attempts)] = [@ EXCEPT ![field] = value]]

\* Lines 86-92.
CopyImage ==
    /\ pc = "copy"
    /\ out' = Put(out, dest_image, Image(image_files[idx].file_path))
    /\ total_files' = total_files + 1
    /\ processed_files' = Append(processed_files,
            <<image_files[idx].file_path.file,
              folder_name_of(image_files[idx].file_path)>>)
    /\ attempts' = Mark("img", "ok")
    /\ pc' = Advance(idx)
    /\ UNCHANGED <<inputs, out_exists, image_files, idx, dest_base, dest_image,
                   txt_filepath, counter, exit_status, run, failures, earlier,
                   orphans>>

\* Mutant: the counter is incremented before the copy, so a failed copy counts.
CopyImageFails_Counted ==
    /\ pc = "copy"
    /\ failures < MaxFailures
    /\ failures' = failures + 1
    /\ total_files' = total_files + 1
    /\ attempts' = Mark("img", "failed")
    /\ orphans' = orphans \cup {Orphan}
    /\ pc' = Advance(idx)
    /\ UNCHANGED <<inputs, out_exists, out, image_files, idx, dest_base,
                   dest_image, txt_filepath, counter, processed_files,
                   exit_status, run, earlier>>

\* Line 86 raising OSError before the destination is created (the source
\* vanished, permission denied): lines 94-95.
CopyImageFails ==
    /\ pc = "copy"
    /\ failures < MaxFailures
    /\ failures' = failures + 1
    /\ attempts' = Mark("img", "failed")
    /\ orphans' = orphans \cup {Orphan}
    /\ pc' = Advance(idx)
    /\ UNCHANGED <<inputs, out_exists, out, locals, exit_status, run, earlier>>

\* Line 86 raising OSError while the destination is being written.
CopyImageFailsPartway ==
    /\ pc = "copy"
    /\ failures < MaxFailures
    /\ failures' = failures + 1
    /\ out' = Put(out, dest_image, Partial)
    /\ attempts' = Mark("img", "failed")
    /\ orphans' = orphans \cup {Orphan}
    /\ pc' = Advance(idx)
    /\ UNCHANGED <<inputs, out_exists, locals, exit_status, run, earlier>>

\* Mutant: main ignores the returned count.
Return_AlwaysZero ==
    /\ pc = "return"
    /\ exit_status' = 0
    /\ pc' = "exit"
    /\ UNCHANGED <<inputs, out_exists, out, locals, run, failures, earlier,
                   attempts, orphans>>

\* Lines 56-58 / 97-100 and 142-145: the count is returned and main exits.
Return ==
    /\ pc = "return"
    /\ exit_status' = IF total_files = 0 THEN 1 ELSE 0
    /\ pc' = "exit"
    /\ UNCHANGED <<inputs, out_exists, out, locals, run, failures, earlier,
                   attempts, orphans>>

\* The tool is invoked again with the same two directories.
Rerun ==
    /\ pc = "exit"
    /\ run < MaxRuns
    /\ run' = run + 1
    /\ pc' = "main"
    /\ exit_status' = -1
    /\ image_files' = <<>>
    /\ idx' = 0
    /\ dest_base' = <<>>
    /\ dest_image' = <<>>
    /\ txt_filepath' = <<>>
    /\ counter' = 0
    /\ total_files' = 0
    /\ processed_files' = <<>>
    /\ out_start' = out
    /\ prev_start' = out_start
    /\ attempts' = <<>>
    /\ prev_attempts' = attempts
    /\ UNCHANGED <<inputs, out_exists, out, failures, orphans>>

Next ==
    \/ ValidateInput
    \/ MakeOutputDir
    \/ MakeOutputDirFails
    \/ Discover
    \/ WriteTxt
    \/ WriteTxtOpenFails
    \/ WriteTxtWriteFails
    \/ CopyImage
    \/ CopyImageFails
    \/ CopyImageFailsPartway
    \/ Return
    \/ Rerun

Spec == Init /\ [][Next]_vars

\* One run from validation to exit in which no I/O error is raised.
NextWalk ==
    \/ ValidateInput
    \/ MakeOutputDir
    \/ Discover
    \/ WriteTxt
    \/ CopyImage
    \/ Return

SpecWalk == InitWalk /\ [][NextWalk]_vars

\* ------------------------------------------------------------ vocabulary
GtTxt == <<".","g","t",".","t","x","t">>

EndsWith(s, suf) ==
    Len(s) >= Len(suf) /\ SubSeq(s, Len(s) - Len(suf) + 1, Len(s)) = suf

\* The base name of a file of the output directory: its name up to .gt.txt,
\* or up to its extension.
StemOf(name) ==
    IF EndsWith(name, GtTxt) THEN SubSeq(name, 1, Len(name) - Len(GtTxt))
    ELSE splitext(name)[1]

\* The immediate parent folder of a source file.
ParentFolder(e) == e.dir[Len(e.dir)]

\* The candidate's text write and image copy both completed.
Processed(a) == a.txt = "ok" /\ a.img = "ok"

ProcessedNow == {k \in DOMAIN attempts : Processed(attempts[k])}

\* Every file the output directory held is still there with its contents.
Kept(before, after) ==
    \A n \in DOMAIN before : n \in DOMAIN after /\ after[n] = before[n]

A_png == <<"a",".","p","n","g">>
A_jpg == <<"a",".","j","p","g">>
A_txt == <<"a",".","g","t",".","t","x","t">>
A1_png == <<"a","_","1",".","p","n","g">>
A1_txt == <<"a","_","1",".","g","t",".","t","x","t">>

\* ------------------------------------------------------------------- C1
\* C1 (no overwrite): no step of a run changes or removes a file that is in
\* the output directory, and the names every candidate resolves to were not
\* in the output directory when they were resolved.
C1_NoOverwrite ==
    [][ /\ Kept(out, out')
        /\ \A k \in DOMAIN attempts' : attempts'[k].fresh ]_vars

\* A candidate collided with a file present before the run and was written
\* and copied under a suffixed name.
C1_Witness ==
    \E k \in DOMAIN attempts :
        /\ Processed(attempts[k])
        /\ attempts[k].base # attempts[k].cand.base_name
        /\ Collides(out_start, attempts[k].cand.base_name, attempts[k].cand.ext)

\* ------------------------------------------------------------------- C2
\* The processed candidates of this run have pairwise distinct bases.
PairwiseDistinct ==
    \A j, k \in ProcessedNow : j # k => attempts[j].base # attempts[k].base

\* C2 as stated (uniqueness): the bases of the processed candidates are
\* pairwise distinct and none is the stem of any file, of whatever
\* extension, that the output directory held when the run started.
C2_AnyStem ==
    /\ PairwiseDistinct
    /\ \A k \in ProcessedNow :
          \A n \in DOMAIN out_start : StemOf(n) # attempts[k].base

\* C2 as amended: the bases of the processed candidates are pairwise
\* distinct, and for none of them did {base}.gt.txt or {base}{ext}, with the
\* candidate's own extension, exist when the run started.
C2_Uniqueness ==
    /\ PairwiseDistinct
    /\ \A k \in ProcessedNow :
          /\ TxtPath(attempts[k].base) \notin DOMAIN out_start
          /\ ImagePath(attempts[k].base, attempts[k].cand.ext)
                 \notin DOMAIN out_start

\* Two processed candidates with the same stem from different folders, in a
\* run that started with a file of that stem in the output directory.
C2_Witness ==
    \E j, k \in ProcessedNow :
        /\ j # k
        /\ attempts[j].cand.base_name = attempts[k].cand.base_name
        /\ attempts[j].cand.file_path.dir # attempts[k].cand.file_path.dir
        /\ out_start # EmptyDir

\* ------------------------------------------------------------------- C3
\* S_N is free in directory d for extension e.
FreeAt(d, S, e, n) ==
    /\ ImagePath(Suffixed(S, n), e) \notin DOMAIN d
    /\ TxtPath(Suffixed(S, n)) \notin DOMAIN d

\* The base C3 prescribes: S when neither S+E nor S.gt.txt is there, else
\* S_N for the least N >= 1 with neither S_N+E nor S_N.gt.txt there.
Prescribed(d, S, e) ==
    IF ImagePath(S, e) \notin DOMAIN d /\ TxtPath(S) \notin DOMAIN d THEN S
    ELSE LET N == CHOOSE n \in 1..(Cardinality(DOMAIN d) + 1) :
                      /\ FreeAt(d, S, e, n)
                      /\ \A m \in 1..(n - 1) : ~FreeAt(d, S, e, m)
         IN Suffixed(S, N)

\* The run of the example: a.png in Apple and in Banana, an empty output
\* directory, both processed.
TwoFolders ==
    /\ tree = { Entry(<<"Apple">>, A_png), Entry(<<"Banana">>, A_png) }
    /\ run = 1
    /\ out_start = EmptyDir
    /\ pc = "exit"
    /\ ProcessedNow = {1, 2}

\* C3 (collision numbering): each candidate is resolved, against the output
\* directory as the previous candidates left it, to the prescribed base; and
\* a.png in Apple and Banana end as a.png/a.gt.txt for the one discovered
\* first and a_1.png/a_1.gt.txt for the other.
C3_Numbering ==
    /\ [][ pc = "loop" =>
             dest_base' = Prescribed(out, image_files[idx + 1].base_name,
                                     image_files[idx + 1].ext) ]_vars
    /\ [](TwoFolders =>
             out = (A_png :> Image(listing[1]))
                   @@ (A_txt :> Text(ParentFolder(listing[1])))
                   @@ (A1_png :> Image(listing[2]))
                   @@ (A1_txt :> Text(ParentFolder(listing[2]))))

\* The example run has ended, Banana having been discovered first.
C3_Witness == TwoFolders /\ listing[1].dir = <<"Banana">>

\* ------------------------------------------------------------------- C4
\* C4 (pairing correctness): when a run has ended, every counted candidate
\* has its own base, {base}.gt.txt holds exactly the name of the source's
\* immediate parent folder, {base}{ext} holds the source's contents, and as
\* many candidates are counted as have such a pair.
C4_Pairing ==
    pc = "exit" =>
        /\ total_files = Cardinality(ProcessedNow)
        /\ PairwiseDistinct
        /\ \A k \in ProcessedNow :
              LET a == attempts[k]
              IN /\ TxtPath(a.base) \in DOMAIN out
                 /\ out[TxtPath(a.base)] = Text(ParentFolder(a.cand.file_path))
                 /\ ImagePath(a.base, a.cand.ext) \in DOMAIN out
                 /\ out[ImagePath(a.base, a.cand.ext)] = Image(a.cand.file_path)

\* A run has ended that processed a candidate from a nested folder under a
\* suffixed name.
C4_Witness ==
    /\ pc = "exit"
    /\ \E k \in ProcessedNow :
          /\ Len(attempts[k].cand.file_path.dir) = 2
          /\ attempts[k].base # attempts[k].cand.base_name

\* ------------------------------------------------------------------- C5
\* The name ends, after a character that is not a dot, in an extension of
\* the allow-list, in whatever case.
HasImageExtension(e) ==
    \E k \in 2..Len(e.file) :
        /\ Lower(SubSeq(e.file, k, Len(e.file))) \in image_extensions
        /\ \E j \in 1..(k - 1) : e.file[j] # "."

Discovered == {image_files[k].file_path : k \in DOMAIN image_files}

Walked == pc \in {"loop", "copy", "return"} \/ (pc = "exit" /\ attempts # <<>>)

Copied(e) == \E n \in DOMAIN out : out[n] = Image(e)

\* C5 as stated (depth limiting): what get_image_files returns is exactly the
\* files directly inside a first-level folder with an allowed extension, and
\* no file of the root or of a deeper folder is copied.
C5_FirstLevelOnly ==
    /\ Walked => Discovered = {e \in tree : Len(e.dir) = 1 /\ HasImageExtension(e)}
    /\ \A e \in tree : Len(e.dir) # 1 => ~Copied(e)

\* C5 as amended: what get_image_files returns is exactly the files with an
\* allowed extension, compared case-insensitively, in any folder below the
\* input root, at whatever depth; a file directly in the input root is never
\* returned and never copied.
C5_BelowRoot ==
    /\ Walked => Discovered = {e \in tree : Len(e.dir) >= 1 /\ HasImageExtension(e)}
    /\ \A e \in tree : Len(e.dir) = 0 => ~Copied(e)

\* A run has ended over a tree with an image in the root and an upper-case
\* image in a first-level folder, which alone was discovered and copied.
C5_Witness ==
    /\ pc = "exit"
    /\ tree = { Entry(<<>>, A_png),
                Entry(<<"Banana">>, <<"a",".","J","P","G">>) }
    /\ Len(image_files) = 1
    /\ Copied(Entry(<<"Banana">>, <<"a",".","J","P","G">>))

\* ------------------------------------------------------------------- C6
\* C6 (failure isolation): a run that got past its pre-flight steps ends
\* having attempted every candidate, in discovery order, and returns the
\* number of candidates whose text write and image copy both completed.
C6_Isolation ==
    (pc = "exit" /\ image_files # <<>>) =>
        /\ Len(attempts) = Len(image_files)
        /\ \A k \in DOMAIN attempts : attempts[k].cand = image_files[k]
        /\ total_files = Cardinality(ProcessedNow)

\* A run has ended in which a candidate failed and a later one was processed.
C6_Witness ==
    /\ pc = "exit"
    /\ \E j, k \in DOMAIN attempts :
          j < k /\ ~Processed(attempts[j]) /\ Processed(attempts[k])

\* ------------------------------------------------------------------- C7
\* C7 (exit status): the process exits with 0 or 1, with 0 exactly when a
\* candidate was processed, and with 1 when the input is not a directory.
C7_ExitStatus ==
    pc = "exit" =>
        /\ exit_status \in {0, 1}
        /\ exit_status = 0 <=> ProcessedNow # {}
        /\ ~input_is_dir => exit_status = 1

\* Every candidate failed and the process exited with 1.
C7_Witness ==
    /\ pc = "exit"
    /\ attempts # <<>>
    /\ ProcessedNow = {}
    /\ exit_status = 1

\* ------------------------------------------------------------------- C8
FirstRunOutputs == DOMAIN out_start \ DOMAIN prev_start

\* The attempts of this run that left a file in the output directory.
Producing == {k \in DOMAIN attempts : attempts[k].txt # "open_failed"}

DisjointFromFirstRun ==
    \A k \in Producing : \A n \in FirstRunOutputs : StemOf(n) # attempts[k].base

IsSuffixed(a) == a.base # a.cand.base_name

C9_PreFlight ==
    [][ ~input_is_dir =>
          /\ out_exists' = out_exists
          /\ out' = out
          /\ image_files' = <<>>
          /\ attempts' = <<>>
          /\ pc' \in {"main", "exit"}
          /\ pc' = "exit" => exit_status' = 1 ]_vars

\* The process has exited on a missing input with no output directory.
C9_Witness == ~input_is_dir /\ pc = "exit" /\ ~out_exists /\ exit_status = 1

\* ------------------------------------------------------------------ C10
\* The text file of every candidate whose copy failed is in place with the
\* label, the candidate is not counted, and no later candidate, of this run
\* or a later one, was resolved to its base.
OrphansStayClaimed ==
    /\ \A o \in orphans :
          /\ TxtPath(o.base) \in DOMAIN out
          /\ out[TxtPath(o.base)] = Text(o.label)
          /\ \A k \in DOMAIN attempts :
                attempts[k].base = o.base => (o.run = run /\ k <= o.k)
    /\ pc \in {"loop", "return", "exit"} => total_files = Cardinality(ProcessedNow)

\* The candidate last attempted, whose text write ended as in kinds, can be
\* resolved to the same base again.
LastNotClaimed(kinds) ==
    (attempts # <<>> /\ attempts[Len(attempts)].txt \in kinds) =>
        LET a == attempts[Len(attempts)]
        IN ~Exists(out, TxtPath(a.base))
           /\ ~Exists(out, ImagePath(a.base, a.cand.ext))

\* C10 as stated: orphaned text files stay claimed, and a base whose text
\* write did not succeed is not claimed.
C10_FailedTextUnclaimed ==
    /\ OrphansStayClaimed
    /\ LastNotClaimed({"open_failed", "write_failed"})

\* C10 as amended: orphaned text files stay claimed, and a base whose text
\* file could not be created is not claimed (a text write that fails after
\* the file was created leaves the base claimed).
C10_HalfWritten ==
    /\ OrphansStayClaimed
    /\ LastNotClaimed({"open_failed"})
    /\ \A k \in DOMAIN attempts :
          attempts[k].txt = "write_failed" => Exists(out, TxtPath(attempts[k].base))

\* In a later run a candidate from another folder, with the stem that is
\* the base of an orphan of the first run, has been processed.
C10_Witness ==
    \E o \in orphans : \E k \in ProcessedNow :
        /\ o.run < run
        /\ attempts[k].cand.base_name = o.base
        /\ ParentFolder(attempts[k].cand.file_path) # o.label

====
